---- MODULE Spec2Model ----
(***************************************************************************)
(* Circle challenge (src/src/App.tsx): the stroke-capture state machine    *)
(* driven by pointer events and the closed-form circle scorer.             *)
(*                                                                         *)
(* Numbers.  The program computes in IEEE doubles; the model computes in   *)
(* fixed point with round-to-nearest at every step:                        *)
(*   coordinates, lengths   1/PX of a logical pixel   (PX = 100)           *)
(*   ratios, scores         1/ONE                     (ONE = 10000)        *)
(* All intermediate values stay below 2^31.                                *)
(***************************************************************************)
EXTENDS Integers, Sequences, FiniteSets

VARIABLES
    canvasRef,    \* TRUE iff canvasRef.current is the mounted canvas element
    contextRef,   \* TRUE iff contextRef.current holds a 2d context
    dprRef,       \* dprRef.current, a ratio [num, den]
    canvasWidth,  \* canvas.width, the backing-store width in device pixels
    isDrawingRef, \* isDrawingRef.current
    pointsRef,    \* pointsRef.current, a sequence of Points [x, y]
    lastScore,    \* React state: a score, or null
    bestScore,    \* React state
    hasAttempt,   \* React state
    captured,     \* pointer ids for which the canvas holds pointer capture
    pressed,      \* input source: pointer ids currently down
    delivered,    \* history: positions of the last accepted pointer-down and
                  \* of every pointer-move delivered since
    scores,       \* history: every value passed to setLastScore, in order
    owner,        \* history: the pointer whose accepted pointer-down began the
                  \* gesture in progress, 0 when there is none
    lastPointer,  \* history: the pointer of the event handled last, 0 at first
    plan          \* input source: [step |-> 0] draws free-hand; [step |-> d],
                  \* d > 0, traces the reference circle in steps of d degrees

vars == <<canvasRef, contextRef, dprRef, canvasWidth, isDrawingRef, pointsRef,
          lastScore, bestScore, hasAttempt, captured, pressed, delivered,
          scores, owner, lastPointer, plan>>

progVars == <<canvasRef, contextRef, dprRef, canvasWidth, isDrawingRef,
              pointsRef, lastScore, bestScore, hasAttempt, captured>>

(***************************************************************************)
(* Bounds of the model.                                                    *)
(***************************************************************************)
\* longest stroke the free-hand input source draws
MaxLen == 6
\* number of attempts the free-hand input source lets complete
MaxAttempts == 2

(***************************************************************************)
(* Program constants and fixed-point units.                                *)
(***************************************************************************)
CANVAS_SIZE == 320
\* coordinate units per logical pixel
PX == 100
\* fixed-point one for ratios
ONE == 10000
\* Math.PI in units of 1/ONE
PI == 31416
\* the initial value of lastScore
null == -1

Max(a, b) == IF a >= b THEN a ELSE b
Min(a, b) == IF a <= b THEN a ELSE b
Abs(a) == IF a < 0 THEN 0 - a ELSE a

\* a / b rounded to nearest, for a >= 0 and b > 0
RoundDiv(a, b) == (a + (b \div 2)) \div b

\* Newton's iteration from above: the floor of the square root of x
RECURSIVE SqrtIter(_, _)
SqrtIter(x, r) ==
    LET n == (r + x \div r) \div 2
    IN  IF n >= r THEN r ELSE SqrtIter(x, n)

\* the square root of x rounded to nearest, 0 <= x < 2^31
Sqrt(x) ==
    LET r == IF x = 0 THEN 0 ELSE SqrtIter(x, 46340)
    IN  IF x - r * r > r THEN r + 1 ELSE r

\* Math.hypot
hypot(dx, dy) == Sqrt(dx * dx + dy * dy)

\* x ** 0.75 for a ratio x in 0..ONE:  x^(3/4) = sqrt(x * sqrt(x))
Pow075(x) == Sqrt(x * Sqrt(x * ONE))

(***************************************************************************)
(* Reference circle.                                                       *)
(***************************************************************************)
centerRef == [x |-> (CANVAS_SIZE * PX) \div 2, y |-> (CANVAS_SIZE * PX) \div 2]
\* CANVAS_SIZE * 0.38, in coordinate units
radiusRef == (CANVAS_SIZE * PX * 38) \div 100

(***************************************************************************)
(* scoreDrawing.                                                           *)
(***************************************************************************)
\* 2 * Math.PI * radius
circumference == RoundDiv(2 * PI * radiusRef, ONE)

\* the loop of scoreDrawing over points[1..n]: the sum of
\* Math.abs(distance - radius)
RECURSIVE deviationSumTo(_, _)
deviationSumTo(points, n) ==
    IF n = 0 THEN 0
    ELSE deviationSumTo(points, n - 1)
         + Abs(hypot(points[n].x - centerRef.x, points[n].y - centerRef.y)
               - radiusRef)

deviationSum(points) == deviationSumTo(points, Len(points))

\* the loop of scoreDrawing over points[1..n]: the sum of the distances
\* between consecutive samples (i > 0 in the code's 0-based index)
RECURSIVE pathLengthTo(_, _)
pathLengthTo(points, n) ==
    IF n <= 1 THEN 0
    ELSE pathLengthTo(points, n - 1)
         + hypot(points[n].x - points[n-1].x, points[n].y - points[n-1].y)

pathLength(points) == pathLengthTo(points, Len(points))

\* deviationSum / points.length
avgDeviation(points) == RoundDiv(deviationSum(points), Len(points))

\* mutant: the deviation term without Math.max(0, ...)
deviationScore_Unsaturated(points) ==
    ONE - RoundDiv(avgDeviation(points) * ONE, (radiusRef * 6) \div 10)

\* Math.max(0, 1 - avgDeviation / (radius * 0.6))
deviationScore(points) ==
    Max(0, ONE - RoundDiv(avgDeviation(points) * ONE, (radiusRef * 6) \div 10))

\* mutant: the ratio without Math.min(..., 1)
coverageRatio_Uncapped(points) ==
    RoundDiv(pathLength(points) * ONE, RoundDiv(circumference * 9, 10))

\* mutant: Math.max for Math.min
coverageRatio_Max(points) ==
    Max(RoundDiv(pathLength(points) * ONE, RoundDiv(circumference * 9, 10)), ONE)

\* mutant: the whole circumference for 0.9 of it
coverageRatio_FullTurn(points) ==
    IF pathLength(points) >= circumference THEN ONE
    ELSE RoundDiv(pathLength(points) * ONE, circumference)

\* Math.min(pathLength / (circumference * 0.9), 1); the quotient is only
\* formed below the cap, where it fits
coverageRatio(points) ==
    LET full == RoundDiv(circumference * 9, 10)
    IN  IF pathLength(points) >= full THEN ONE
        ELSE RoundDiv(pathLength(points) * ONE, full)

\* coverageRatio ** 0.75
coverageScore(points) == Pow075(coverageRatio(points))

\* Math.round((deviationScore * 0.65 + coverageScore * 0.35) * 100)
finalScore(points) ==
    RoundDiv(65 * deviationScore(points) + 35 * coverageScore(points), ONE)

\* mutant: a floor of 5 samples
MIN_SAMPLES_Five == 6 - 1

\* the sample floor of scoreDrawing
MIN_SAMPLES == 6

\* mutant: neither Math.max(0, ...) on the deviation term nor the final clamp
scoreDrawing_Unclamped(points) ==
    IF Len(points) < MIN_SAMPLES THEN 0
    ELSE RoundDiv(65 * (ONE - RoundDiv(avgDeviation(points) * ONE, (radiusRef * 6) \div 10))
                  + 35 * coverageScore(points),
                  ONE)

scoreDrawing(points) ==
    IF Len(points) < MIN_SAMPLES THEN 0
    ELSE Max(0, Min(finalScore(points), 100))

(***************************************************************************)
(* The canvas.                                                             *)
(***************************************************************************)
\* values of window.devicePixelRatio, as ratios
DevicePixelRatios == {[num |-> 1, den |-> 1], [num |-> 2, den |-> 1]}

\* values of window.devicePixelRatio for which CANVAS_SIZE * devicePixelRatio
\* is not always an integer: 3/2, and the browser zoom levels 4/3 and 1/3
ZoomedPixelRatios ==
    {[num |-> 3, den |-> 2], [num |-> 4, den |-> 3], [num |-> 1, den |-> 3]}

\* canvas.getBoundingClientRect(): the canvas is laid out 320 CSS pixels wide;
\* left and top in coordinate units, width in CSS pixels
canvasRect == [left |-> 16 * PX, top |-> 200 * PX, width |-> CANVAS_SIZE]

\* canvas.width = CANVAS_SIZE * devicePixelRatio (an integer attribute)
BackingWidth(dpr) == (CANVAS_SIZE * dpr.num) \div dpr.den

(***************************************************************************)
(* getPointerPosition.                                                     *)
(***************************************************************************)
NoPosition == [none |-> TRUE]

getPointerPosition(event) ==
    IF ~canvasRef THEN NoPosition
    ELSE \* scale = canvas.width / rect.width; x = (clientX - rect.left) * (scale / dpr)
         [x |-> RoundDiv((event.clientX - canvasRect.left) * canvasWidth * dprRef.den,
                         canvasRect.width * dprRef.num),
          y |-> RoundDiv((event.clientY - canvasRect.top) * canvasWidth * dprRef.den,
                         canvasRect.width * dprRef.num)]

(***************************************************************************)
(* The handlers.                                                           *)
(***************************************************************************)
\* mutant: the position is pushed on the buffer instead of replacing it
handlePointerDown_Push(event) ==
    IF ~contextRef \/ getPointerPosition(event) = NoPosition
    THEN UNCHANGED <<progVars, scores>>
    ELSE /\ captured' = captured \cup {event.pointerId}
         /\ pointsRef' = Append(pointsRef, getPointerPosition(event))
         /\ isDrawingRef' = TRUE
         /\ UNCHANGED <<canvasRef, contextRef, dprRef, canvasWidth, lastScore,
                        bestScore, hasAttempt, scores>>

\* mutant: pointer-down starts the gesture with an empty buffer
handlePointerDown_EmptyStart(event) ==
    IF ~contextRef \/ getPointerPosition(event) = NoPosition
    THEN UNCHANGED <<progVars, scores>>
    ELSE /\ captured' = captured \cup {event.pointerId}
         /\ pointsRef' = <<>>
         /\ isDrawingRef' = TRUE
         /\ UNCHANGED <<canvasRef, contextRef, dprRef, canvasWidth, lastScore,
                        bestScore, hasAttempt, scores>>

\* mutant: pointer-down does not look at the rendering context
handlePointerDown_NoContextGuard(event) ==
    IF getPointerPosition(event) = NoPosition
    THEN UNCHANGED <<progVars, scores>>
    ELSE /\ captured' = captured \cup {event.pointerId}
         /\ pointsRef' = <<getPointerPosition(event)>>
         /\ isDrawingRef' = TRUE
         /\ UNCHANGED <<canvasRef, contextRef, dprRef, canvasWidth, lastScore,
                        bestScore, hasAttempt, scores>>

\* mutant: an accepted pointer-down also calls setLastScore(null)
handlePointerDown_ResetsLast(event) ==
    IF ~contextRef \/ getPointerPosition(event) = NoPosition
    THEN UNCHANGED <<progVars, scores>>
    ELSE /\ captured' = captured \cup {event.pointerId}
         /\ pointsRef' = <<getPointerPosition(event)>>
         /\ isDrawingRef' = TRUE
         /\ lastScore' = null
         /\ UNCHANGED <<canvasRef, contextRef, dprRef, canvasWidth,
                        bestScore, hasAttempt, scores>>

handlePointerDown(event) ==
    IF ~contextRef \/ getPointerPosition(event) = NoPosition
    THEN UNCHANGED <<progVars, scores>>
    ELSE /\ captured' = captured \cup {event.pointerId}
         /\ pointsRef' = <<getPointerPosition(event)>>
         /\ isDrawingRef' = TRUE
         /\ UNCHANGED <<canvasRef, contextRef, dprRef, canvasWidth, lastScore,
                        bestScore, hasAttempt, scores>>

\* mutant: a move to the position of the previous sample is dropped
handlePointerMove_Coalesce(event) ==
    IF \/ ~isDrawingRef
       \/ ~contextRef
       \/ getPointerPosition(event) = NoPosition
       \/ pointsRef = <<>>
       \/ pointsRef[Len(pointsRef)] = getPointerPosition(event)
    THEN UNCHANGED <<progVars, scores>>
    ELSE /\ pointsRef' = Append(pointsRef, getPointerPosition(event))
         /\ UNCHANGED <<canvasRef, contextRef, dprRef, canvasWidth, isDrawingRef,
                        lastScore, bestScore, hasAttempt, captured, scores>>

handlePointerMove(event) ==
    IF \/ ~isDrawingRef
       \/ ~contextRef
       \/ getPointerPosition(event) = NoPosition
       \/ pointsRef = <<>>    \* previous is undefined: previous.x throws
    THEN UNCHANGED <<progVars, scores>>
    ELSE /\ pointsRef' = Append(pointsRef, getPointerPosition(event))
         /\ UNCHANGED <<canvasRef, contextRef, dprRef, canvasWidth, isDrawingRef,
                        lastScore, bestScore, hasAttempt, captured, scores>>

\* mutant: a stroke that scores 0 is dropped without being recorded
finishDrawing_DropsZero ==
    /\ UNCHANGED <<canvasRef, contextRef, dprRef, canvasWidth>>
    /\ IF ~isDrawingRef
       THEN UNCHANGED <<isDrawingRef, pointsRef, lastScore, bestScore, hasAttempt, scores>>
       ELSE /\ isDrawingRef' = FALSE
            /\ IF Len(pointsRef) = 0
               THEN UNCHANGED <<pointsRef, lastScore, bestScore, hasAttempt, scores>>
               ELSE IF scoreDrawing(pointsRef) = 0
                    THEN /\ pointsRef' = <<>>
                         /\ UNCHANGED <<lastScore, bestScore, hasAttempt, scores>>
                    ELSE /\ lastScore' = scoreDrawing(pointsRef)
                         /\ scores' = Append(scores, lastScore')
                         /\ hasAttempt' = TRUE
                         /\ bestScore' = Max(bestScore, lastScore')
                         /\ pointsRef' = <<>>

\* mutant: setHasAttempt(true) is left out
finishDrawing_NoAttemptFlag ==
    /\ UNCHANGED <<canvasRef, contextRef, dprRef, canvasWidth>>
    /\ IF ~isDrawingRef
       THEN UNCHANGED <<isDrawingRef, pointsRef, lastScore, bestScore, hasAttempt, scores>>
       ELSE /\ isDrawingRef' = FALSE
            /\ IF Len(pointsRef) = 0
               THEN UNCHANGED <<pointsRef, lastScore, bestScore, hasAttempt, scores>>
               ELSE /\ lastScore' = scoreDrawing(pointsRef)
                    /\ scores' = Append(scores, lastScore')
                    /\ UNCHANGED hasAttempt
                    /\ bestScore' = Max(bestScore, lastScore')
                    /\ pointsRef' = <<>>

\* mutant: setBestScore(nextScore)
finishDrawing_NoMax ==
    /\ UNCHANGED <<canvasRef, contextRef, dprRef, canvasWidth>>
    /\ IF ~isDrawingRef
       THEN UNCHANGED <<isDrawingRef, pointsRef, lastScore, bestScore, hasAttempt, scores>>
       ELSE /\ isDrawingRef' = FALSE
            /\ IF Len(pointsRef) = 0
               THEN UNCHANGED <<pointsRef, lastScore, bestScore, hasAttempt, scores>>
               ELSE /\ lastScore' = scoreDrawing(pointsRef)
                    /\ scores' = Append(scores, lastScore')
                    /\ hasAttempt' = TRUE
                    /\ bestScore' = lastScore'
                    /\ pointsRef' = <<>>

\* mutant: the buffer is not cleared
finishDrawing_KeepsBuffer ==
    /\ UNCHANGED <<canvasRef, contextRef, dprRef, canvasWidth>>
    /\ IF ~isDrawingRef
       THEN UNCHANGED <<isDrawingRef, pointsRef, lastScore, bestScore, hasAttempt, scores>>
       ELSE /\ isDrawingRef' = FALSE
            /\ IF Len(pointsRef) = 0
               THEN UNCHANGED <<pointsRef, lastScore, bestScore, hasAttempt, scores>>
               ELSE /\ lastScore' = scoreDrawing(pointsRef)
                    /\ scores' = Append(scores, lastScore')
                    /\ hasAttempt' = TRUE
                    /\ bestScore' = Max(bestScore, lastScore')
                    /\ UNCHANGED pointsRef

\* leaves only captured to its caller; nextScore is read back as lastScore'
finishDrawing ==
    /\ UNCHANGED <<canvasRef, contextRef, dprRef, canvasWidth>>
    /\ IF ~isDrawingRef
       THEN UNCHANGED <<isDrawingRef, pointsRef, lastScore, bestScore, hasAttempt, scores>>
       ELSE /\ isDrawingRef' = FALSE
            /\ IF Len(pointsRef) = 0
               THEN UNCHANGED <<pointsRef, lastScore, bestScore, hasAttempt, scores>>
               ELSE /\ lastScore' = scoreDrawing(pointsRef)
                    /\ scores' = Append(scores, lastScore')
                    /\ hasAttempt' = TRUE
                    /\ bestScore' = Max(bestScore, lastScore')
                    /\ pointsRef' = <<>>

\* mutant: the capture is released only while a gesture is in progress
releaseIfCaptured_InDrawing(event) ==
    captured' = IF isDrawingRef /\ event.pointerId \in captured
                THEN captured \ {event.pointerId}
                ELSE captured

releaseIfCaptured(event) ==
    captured' = IF event.pointerId \in captured
                THEN captured \ {event.pointerId}
                ELSE captured

handlePointerUp(event) == releaseIfCaptured(event) /\ finishDrawing

\* mutant: pointer-leave releases the capture and leaves the gesture running
handlePointerLeave_KeepsDrawing(event) ==
    /\ releaseIfCaptured(event)
    /\ UNCHANGED <<canvasRef, contextRef, dprRef, canvasWidth, isDrawingRef,
                   pointsRef, lastScore, bestScore, hasAttempt, scores>>

handlePointerLeave(event) == releaseIfCaptured(event) /\ finishDrawing

handlePointerCancel(event) == releaseIfCaptured(event) /\ finishDrawing

(***************************************************************************)
(* Construction and the mount effects.                                     *)
(***************************************************************************)
\* the state after the first render and the mount effect, on a device whose
\* window.devicePixelRatio is one of ratios
MountedAt(ratios) ==
    /\ canvasRef = TRUE
    /\ contextRef \in BOOLEAN
    /\ dprRef \in IF contextRef THEN ratios ELSE {[num |-> 1, den |-> 1]}
    \* without a context the effect returns before it sizes the canvas, which
    \* keeps the default width of a canvas element
    /\ canvasWidth = IF contextRef THEN BackingWidth(dprRef) ELSE 300
    /\ isDrawingRef = FALSE
    /\ pointsRef = <<>>
    /\ lastScore = null
    /\ bestScore = 0
    /\ hasAttempt = FALSE
    /\ captured = {}
    /\ pressed = {}
    /\ delivered = <<>>
    /\ scores = <<>>
    /\ owner = 0
    /\ lastPointer = 0

Mounted == MountedAt(DevicePixelRatios)

(***************************************************************************)
(* The input source.  An event carries the pointer id and the client       *)
(* position; EventAt places it over the logical position (x, y) of the     *)
(* canvas as laid out.                                                     *)
(***************************************************************************)
Pointers == {1, 2}

EventAt(pid, p) ==
    [pointerId |-> pid, clientX |-> canvasRect.left + p.x, clientY |-> canvasRect.top + p.y]

\* sin(d degrees) * 100000 for d = 0..90
SinTable ==
    << 0, 1745, 3490, 5234, 6976, 8716, 10453,
       12187, 13917, 15643, 17365, 19081, 20791, 22495,
       24192, 25882, 27564, 29237, 30902, 32557, 34202,
       35837, 37461, 39073, 40674, 42262, 43837, 45399,
       46947, 48481, 50000, 51504, 52992, 54464, 55919,
       57358, 58779, 60182, 61566, 62932, 64279, 65606,
       66913, 68200, 69466, 70711, 71934, 73135, 74314,
       75471, 76604, 77715, 78801, 79864, 80902, 81915,
       82904, 83867, 84805, 85717, 86603, 87462, 88295,
       89101, 89879, 90631, 91355, 92050, 92718, 93358,
       93969, 94552, 95106, 95630, 96126, 96593, 97030,
       97437, 97815, 98163, 98481, 98769, 99027, 99255,
       99452, 99619, 99756, 99863, 99939, 99985, 100000 >>

SinDeg(a) ==
    IF a <= 90 THEN SinTable[a + 1]
    ELSE IF a <= 180 THEN SinTable[180 - a + 1]
    ELSE IF a <= 270 THEN 0 - SinTable[a - 180 + 1]
    ELSE 0 - SinTable[360 - a + 1]

CosDeg(a) == SinDeg((a + 90) % 360)

\* the point of the reference circle at a degrees, on the coordinate grid
OnCircle(a) ==
    [x |-> centerRef.x + RoundDiv(radiusRef * CosDeg(a % 360), 100000),
     y |-> centerRef.y + RoundDiv(radiusRef * SinDeg(a % 360), 100000)]

\* the steps, in degrees, of the traced polygons: 360 \div step samples
Steps == {1, 2, 3, 4, 5, 6, 8, 9, 10, 12, 15, 18, 20, 24, 30, 36, 40, 45, 60}

\* positions of the free-hand gestures of Spec: two points of the circle
FreePositions == {OnCircle(0), OnCircle(90)}

\* positions of the free-hand gestures of ScoreSpec: on the circle, its
\* centre, inside it, outside it
ScorePositions ==
    { OnCircle(0), centerRef,
      [x |-> centerRef.x + radiusRef \div 2, y |-> centerRef.y],
      [x |-> CANVAS_SIZE * PX, y |-> CANVAS_SIZE * PX] }

\* the terminating events: the handlers do not read their position
EndEvent(pid) == EventAt(pid, centerRef)

(***************************************************************************)
(* Spec: any interleaving of the events of two pointers.                   *)
(***************************************************************************)
Init == Mounted /\ plan = [step |-> 0]

PointerDown ==
    \E pid \in Pointers \ pressed, p \in FreePositions :
        /\ Len(scores) < MaxAttempts
        /\ handlePointerDown(EventAt(pid, p))
        /\ pressed' = pressed \cup {pid}
        /\ delivered' = IF contextRef /\ canvasRef
                        THEN <<getPointerPosition(EventAt(pid, p))>>
                        ELSE delivered
        /\ owner' = IF contextRef /\ canvasRef THEN pid ELSE owner
        /\ lastPointer' = pid
        /\ UNCHANGED plan

PointerMove ==
    \E pid \in Pointers, p \in FreePositions :
        /\ Len(pointsRef) < MaxLen
        /\ handlePointerMove(EventAt(pid, p))
        /\ delivered' = IF delivered # <<>>
                        THEN Append(delivered, getPointerPosition(EventAt(pid, p)))
                        ELSE delivered
        /\ lastPointer' = pid
        /\ UNCHANGED <<pressed, owner, plan>>

PointerUp ==
    \E pid \in pressed :
        /\ handlePointerUp(EndEvent(pid))
        /\ pressed' = pressed \ {pid}
        /\ delivered' = <<>>
        /\ owner' = 0
        /\ lastPointer' = pid
        /\ UNCHANGED plan

PointerCancel ==
    \E pid \in pressed :
        /\ handlePointerCancel(EndEvent(pid))
        /\ pressed' = pressed \ {pid}
        /\ delivered' = <<>>
        /\ owner' = 0
        /\ lastPointer' = pid
        /\ UNCHANGED plan

PointerLeave ==
    \E pid \in Pointers :
        /\ handlePointerLeave(EndEvent(pid))
        /\ delivered' = <<>>
        /\ owner' = 0
        /\ lastPointer' = pid
        /\ UNCHANGED <<pressed, plan>>

Next == PointerDown \/ PointerMove \/ PointerUp \/ PointerCancel \/ PointerLeave

Spec == Init /\ [][Next]_vars

(***************************************************************************)
(* DprSpec: the events of Spec on devices of any pixel ratio.              *)
(***************************************************************************)
DprInit ==
    /\ MountedAt(DevicePixelRatios \cup ZoomedPixelRatios)
    /\ contextRef
    /\ plan = [step |-> 0]

DprSpec == DprInit /\ [][Next]_vars

(***************************************************************************)
(* ScoreSpec: one gesture of one pointer, scored when the pointer lifts.   *)
(* The gesture is free-hand over ScorePositions, or traces the reference   *)
(* circle from 0 degrees in equal steps.                                   *)
(***************************************************************************)
ScoreInit ==
    /\ Mounted
    /\ contextRef
    /\ plan \in {[step |-> d] : d \in Steps \cup {0}}

\* the samples a traced polygon has: one revolution
Samples(step) == 360 \div step

\* the positions the gesture may visit next
Ahead ==
    IF plan.step = 0
    THEN IF Len(pointsRef) < MaxLen THEN ScorePositions ELSE {}
    ELSE IF Len(pointsRef) < Samples(plan.step)
         THEN {OnCircle(Len(pointsRef) * plan.step)}
         ELSE {}

TraceDown ==
    \E p \in Ahead :
        /\ pressed = {}
        /\ scores = <<>>
        /\ handlePointerDown(EventAt(1, p))
        /\ pressed' = {1}
        /\ delivered' = <<getPointerPosition(EventAt(1, p))>>
        /\ owner' = 1
        /\ lastPointer' = 1
        /\ UNCHANGED plan

TraceMove ==
    \E p \in Ahead :
        /\ isDrawingRef
        /\ handlePointerMove(EventAt(1, p))
        /\ delivered' = Append(delivered, getPointerPosition(EventAt(1, p)))
        /\ lastPointer' = 1
        /\ UNCHANGED <<pressed, owner, plan>>

TraceUp ==
    /\ 1 \in pressed
    /\ handlePointerUp(EndEvent(1))
    /\ pressed' = {}
    /\ delivered' = <<>>
    /\ owner' = 0
    /\ lastPointer' = 1
    /\ UNCHANGED plan

ScoreNext == TraceDown \/ TraceMove \/ TraceUp

ScoreSpec == ScoreInit /\ [][ScoreNext]_vars

(***************************************************************************)
(* Properties.                                                             *)
(***************************************************************************)
RECURSIVE SeqMax(_)
SeqMax(s) == IF s = <<>> THEN 0 ELSE Max(Head(s), SeqMax(Tail(s)))

IsPrefix(s, t) == Len(s) <= Len(t) /\ SubSeq(t, 1, Len(s)) = s

AllSame(s) == \A i \in 1..Len(s) : s[i] = s[1]

\* a step on which an attempt is recorded
Scored == Len(scores') = Len(scores) + 1

\* a step of the input source: a pointer goes down
DownDelivered == pressed' # pressed /\ pressed \subseteq pressed'

\* a step of the input source: a pointer-move reaches a gesture in progress
MoveDelivered == delivered # <<>> /\ Len(delivered') = Len(delivered) + 1

\* a step of the input source: pointer-up, -cancel or -leave ends a gesture
EndDelivered == delivered # <<>> /\ delivered' = <<>>

\* C1: after any sequence of pointer events bestScore is the maximum of all
\* the lastScore values recorded so far (0 when none was), and bestScore
\* never decreases from one state to the next.
C1_BestIsMaxRecorded ==
    /\ [](bestScore = SeqMax(scores))
    /\ [][bestScore' >= bestScore]_vars

\* two attempts, the second scoring less than the first: bestScore keeps the first
C1_Witness ==
    /\ Len(scores) = 2
    /\ scores[1] > scores[2]
    /\ scores[2] > 0
    /\ lastScore = scores[2]
    /\ bestScore = scores[1]

\* C2: scoreDrawing returns an integer in 0..100 for every stroke, so every
\* recorded lastScore and bestScore is an integer in 0..100.
C2_ScoreInRange ==
    /\ scoreDrawing(pointsRef) \in 0..100
    /\ lastScore # null => lastScore \in 0..100
    /\ bestScore \in 0..100

\* a stroke of six samples or more whose deviation term is cut off at 0
C2_Witness ==
    /\ Len(pointsRef) >= 6
    /\ avgDeviation(pointsRef) > (radiusRef * 6) \div 10
    /\ scoreDrawing(pointsRef) \in 0..100

\* C3: every stroke of fewer than 6 samples scores exactly 0, wherever its
\* samples lie.
C3_FewSamplesScoreZero == Len(pointsRef) < 6 => scoreDrawing(pointsRef) = 0

\* five samples resting on the circle: the formula alone would give 65
C3_Witness ==
    /\ Len(pointsRef) = 5
    /\ finalScore(pointsRef) = 65
    /\ scoreDrawing(pointsRef) = 0

\* C4: from the same Drawing state pointer-up, pointer-cancel and
\* pointer-leave have the same successor state.
C4_EndingsAgree ==
    [][isDrawingRef =>
          \A pid \in Pointers :
              /\ handlePointerUp(EndEvent(pid)) <=> handlePointerCancel(EndEvent(pid))
              /\ handlePointerUp(EndEvent(pid)) <=> handlePointerLeave(EndEvent(pid))]_vars

\* a gesture of six samples has been ended and scored
C4_Witness ==
    /\ ~isDrawingRef
    /\ pointsRef = <<>>
    /\ Len(scores) = 1
    /\ lastScore = 65

\* C5: the samples recorded since an accepted pointer-down are never
\* discarded without being scored: whenever the stroke buffer is cleared or
\* replaced, the stroke it held is scored and recorded as lastScore.
C5_NoAttemptLost ==
    [][(isDrawingRef /\ pointsRef # <<>> /\ ~IsPrefix(pointsRef, pointsRef'))
          => (Scored /\ lastScore' = scoreDrawing(pointsRef))]_vars

\* C6: a terminating event handled in Drawing leaves the machine Idle,
\* lastScore the score of exactly the recorded samples, bestScore the maximum
\* of its previous value and that score, hasAttempt true and the buffer empty.
C6_EndRecordsAttempt ==
    [][(isDrawingRef /\ EndDelivered) =>
          /\ ~isDrawingRef'
          /\ lastScore' = scoreDrawing(pointsRef)
          /\ bestScore' = Max(bestScore, scoreDrawing(pointsRef))
          /\ hasAttempt'
          /\ pointsRef' = <<>>]_vars

\* a second attempt has been recorded that beats the first
C6_Witness ==
    /\ ~isDrawingRef
    /\ pointsRef = <<>>
    /\ Len(scores) = 2
    /\ scores[1] < scores[2]
    /\ lastScore = scores[2]
    /\ bestScore = scores[2]
    /\ hasAttempt

\* C7: after an accepted pointer-down the machine is Drawing and the buffer
\* is exactly [down position], whatever it held before; a scored stroke
\* starts at the position of the latest accepted pointer-down and holds no
\* more samples than events were delivered since.
C7_DownStartsStroke ==
    /\ [][(contextRef /\ canvasRef /\ DownDelivered) =>
             (isDrawingRef' /\ Len(pointsRef') = 1 /\ pointsRef' = delivered')]_vars
    /\ [][Scored =>
             (pointsRef[1] = delivered[1] /\ Len(pointsRef) <= Len(delivered))]_vars

\* a second pointer went down while a stroke was being drawn: the buffer
\* holds the second down position only and nothing has been scored
C7_Witness ==
    /\ isDrawingRef
    /\ Cardinality(pressed) = 2
    /\ Cardinality(captured) = 2
    /\ Len(pointsRef) = 1
    /\ Len(scores) = 0

\* C8: in Drawing each delivered pointer-move appends exactly one sample and
\* changes no earlier one, so the scored stroke is the down position followed
\* by the positions of all the moves delivered since, in order.
C8_EveryMoveSampled ==
    /\ [][(isDrawingRef /\ MoveDelivered) =>
             /\ Len(pointsRef') = Len(pointsRef) + 1
             /\ SubSeq(pointsRef', 1, Len(pointsRef)) = pointsRef
             /\ pointsRef'[Len(pointsRef')] = delivered'[Len(delivered')]]_vars
    /\ [][Scored => (pointsRef = delivered /\ lastScore' = scoreDrawing(delivered))]_vars

\* six samples, the last two at the same position, both kept
C8_Witness ==
    /\ isDrawingRef
    /\ Len(pointsRef) = 6
    /\ pointsRef[5] = pointsRef[6]
    /\ pointsRef[1] # pointsRef[2]
    /\ pointsRef = delivered

\* C9, as stated: a stroke of 6 or more samples that are all the same point
\* scores at most 35.
C9_StationaryAtMost35 ==
    (Len(pointsRef) >= 6 /\ AllSame(pointsRef)) => scoreDrawing(pointsRef) <= 35

\* C9, amended: a stroke of 6 or more samples that are all the same point
\* scores at most 65, wherever the point lies.
C9_StationaryAtMost65 ==
    (Len(pointsRef) >= 6 /\ AllSame(pointsRef)) => scoreDrawing(pointsRef) <= 65

\* six samples resting on one point of the circle
C9_Witness ==
    /\ Len(pointsRef) >= 6
    /\ AllSame(pointsRef)
    /\ pathLength(pointsRef) = 0
    /\ scoreDrawing(pointsRef) = 65

\* the traced polygon is complete: one sample every plan.step degrees
Traced == plan.step > 0 /\ Len(pointsRef) = Samples(plan.step)

\* C10, as stated: for every n >= 6, n samples on the reference circle evenly
\* spaced over a revolution score 100.
C10_PolygonScores100 ==
    (Traced /\ Samples(plan.step) >= 6) => scoreDrawing(pointsRef) = 100

\* C10, amended: for every n >= 10, n samples on the reference circle evenly
\* spaced over a revolution score 100; so does the stroke of 360 samples at
\* steps of 1 degree.
C10_PolygonFrom10Scores100 ==
    (Traced /\ Samples(plan.step) >= 10) => scoreDrawing(pointsRef) = 100

\* the stroke of 360 samples at steps of 1 degree
C10_Witness ==
    /\ Traced
    /\ plan.step = 1
    /\ Len(pointsRef) = 360
    /\ deviationScore(pointsRef) >= ONE - 1
    /\ coverageRatio(pointsRef) = ONE
    /\ scoreDrawing(pointsRef) = 100

\* the score fields of the React state
scoreFields == <<lastScore, bestScore, hasAttempt>>

\* a step of the input source: a terminating event is handled
EndHandled == pressed' \subseteq pressed /\ delivered' = <<>>

\* C11: lastScore, bestScore and hasAttempt are written only when a
\* terminating event is handled in Drawing with at least one recorded sample:
\* pointer-down, pointer-move, a terminating event while Idle and one with an
\* empty buffer leave the three fields as they were.
C11_ScoreFieldsFrame ==
    /\ [][(scoreFields' # scoreFields \/ Scored) =>
             (isDrawingRef /\ Len(pointsRef) >= 1 /\ EndHandled /\ ~isDrawingRef')]_vars
    /\ [][(DownDelivered \/ MoveDelivered) => (scoreFields' = scoreFields /\ ~Scored)]_vars
    /\ [][(~isDrawingRef \/ pointsRef = <<>>) => (scoreFields' = scoreFields /\ ~Scored)]_vars

\* after a recorded attempt a new gesture is under way: its pointer-down and
\* its moves left the fields of the first attempt in place
C11_Witness ==
    /\ Len(scores) = 1
    /\ isDrawingRef
    /\ Len(pointsRef) >= 3
    /\ lastScore = scores[1]
    /\ bestScore = scores[1]
    /\ hasAttempt

\* C12: every accepted pointer-down acquires the pointer capture for its
\* pointer, and after a pointer-up, -cancel or -leave of a pointer is handled
\* the canvas holds no capture for that pointer, in Drawing and in Idle alike.
C12_CaptureHeldThenReleased ==
    /\ [][\A pid \in Pointers, p \in FreePositions :
             (contextRef /\ canvasRef /\ pid \in pressed' \ pressed
                /\ handlePointerDown(EventAt(pid, p)))
             => pid \in captured']_vars
    /\ [][\A pid \in Pointers :
             (EndHandled /\ (\/ handlePointerUp(EndEvent(pid))
                             \/ handlePointerCancel(EndEvent(pid))
                             \/ handlePointerLeave(EndEvent(pid))))
             => pid \notin captured']_vars

\* a gesture was started and ended with fewer than six samples: every capture
\* acquired by a pointer-down has been released by its terminating event
C12_Witness ==
    /\ ~isDrawingRef
    /\ Len(scores) = 1
    /\ pressed = {}
    /\ captured = {}
    /\ lastScore = 0

\* C13: without the canvas or its 2d context pointer-down and pointer-move
\* change nothing (machine state, buffer, capture, score fields), so no
\* gesture ever starts and a terminating event that follows records no score.
C13_NoContextNoEffect ==
    /\ []((~contextRef \/ ~canvasRef) =>
             (~isDrawingRef /\ pointsRef = <<>> /\ captured = {} /\ scores = <<>>))
    /\ [][(~contextRef \/ ~canvasRef) => (UNCHANGED progVars /\ ~Scored)]_vars

\* no context: both pointers have gone down and nothing has started
C13_Witness ==
    /\ ~contextRef
    /\ pressed = Pointers
    /\ ~isDrawingRef
    /\ pointsRef = <<>>
    /\ captured = {}
    /\ lastScore = null
    /\ ~hasAttempt

\* C14: the coordinate mapping does not depend on the device pixel ratio:
\* getPointerPosition maps the client position (clientX, clientY) to
\* (clientX - rect.left, clientY - rect.top), so on every device the recorded
\* samples are the positions the pointer was at, and the score is theirs.
C14_DprIndependent ==
    \A i \in 1..Len(pointsRef) : pointsRef[i] \in FreePositions

\* C15: only the pointer that started a gesture contributes to it: in Drawing
\* a sample is added, the buffer is reset and the gesture is ended only by
\* an event of the pointer whose pointer-down began the gesture.
C15_OnlyOwnerContributes ==
    /\ [][(isDrawingRef /\ Len(pointsRef') > Len(pointsRef)) => lastPointer' = owner]_vars
    /\ [][(isDrawingRef /\ isDrawingRef' /\ ~IsPrefix(pointsRef, pointsRef'))
             => lastPointer' = owner]_vars
    /\ [][(isDrawingRef /\ ~isDrawingRef') => lastPointer' = owner]_vars

\* C16: the stroke buffer agrees with the machine state: it holds at least
\* one sample whenever the machine is Drawing and is empty whenever it is
\* Idle, so every stroke given to the scorer has at least one sample.
C16_BufferMatchesState ==
    /\ [](isDrawingRef <=> Len(pointsRef) >= 1)
    /\ [][Scored => Len(pointsRef) >= 1]_vars

\* a stroke of fewer than six samples was scored, and the next gesture has
\* just begun
C16_Witness ==
    /\ scores = <<0>>
    /\ isDrawingRef
    /\ Len(pointsRef) = 1
    /\ Cardinality(pressed) = 1

\* C17: a gesture of an accepted pointer-down, at most 4 pointer-moves and a
\* terminating event is recorded as an attempt of score 0: lastScore becomes
\* 0, hasAttempt becomes true and bestScore keeps its value.
C17_ShortGestureScoresZero ==
    [][(isDrawingRef /\ EndDelivered /\ Len(delivered) <= 5) =>
          (Scored /\ lastScore' = 0 /\ hasAttempt' /\ bestScore' = bestScore)]_vars

\* an attempt that scored 65, then a short gesture: recorded as 0, best kept
C17_Witness ==
    /\ scores = <<65, 0>>
    /\ lastScore = 0
    /\ bestScore = 65
    /\ hasAttempt
    /\ ~isDrawingRef

\* C18: the deviation term saturates at 0: for every stroke of 6 or more
\* samples whose average deviation is at least 60% of the radius,
\* deviationScore is 0 and the score is round(35 * coverageScore), at most 35.
C18_DeviationSaturates ==
    (Len(pointsRef) >= 6 /\ avgDeviation(pointsRef) >= (radiusRef * 6) \div 10) =>
        /\ deviationScore(pointsRef) = 0
        /\ scoreDrawing(pointsRef) = RoundDiv(35 * coverageScore(pointsRef), ONE)
        /\ scoreDrawing(pointsRef) <= 35

\* six samples or more between the centre and a corner of the canvas, the
\* path shorter than 0.9 of the circumference
C18_Witness ==
    /\ Len(pointsRef) >= 6
    /\ avgDeviation(pointsRef) > (radiusRef * 6) \div 10
    /\ deviationScore(pointsRef) = 0
    /\ coverageRatio(pointsRef) \in 1..(ONE - 1)
    /\ scoreDrawing(pointsRef) \in 1..34

\* the strokes the stroke in hand is compared with: every stroke of six
\* samples over ScorePositions, each by its average deviation, its path
\* length and its score
RefMeasures ==
    { <<avgDeviation(q), pathLength(q), scoreDrawing(q)>> :
          q \in [1..MIN_SAMPLES -> ScorePositions] }

\* the path length at which the coverage is capped: 0.9 of the circumference
FullPath == RoundDiv(circumference * 9, 10)

\* C19: coverage is capped: two strokes of 6 or more samples with the same
\* average deviation and paths both at least 0.9 of the circumference score
\* the same; for a fixed average deviation the score never decreases as the
\* path grows, and for a fixed path it never increases as the average
\* deviation grows.
C19_CappedAndMonotone ==
    Len(pointsRef) >= 6 =>
        \A s \in {<<avgDeviation(pointsRef), pathLength(pointsRef), scoreDrawing(pointsRef)>>},
           m \in RefMeasures :
            /\ (m[1] = s[1] /\ m[2] >= FullPath /\ s[2] >= FullPath) => m[3] = s[3]
            /\ (m[1] = s[1] /\ m[2] <= s[2]) => m[3] <= s[3]
            /\ (m[2] = s[2] /\ m[1] <= s[1]) => m[3] >= s[3]

\* a stroke whose path is past the cap, and a longer one of the same average
\* deviation: both score the same, above 0
C19_Witness ==
    /\ Len(pointsRef) >= 6
    /\ pathLength(pointsRef) >= FullPath
    /\ scoreDrawing(pointsRef) > 0
    /\ \E m \in RefMeasures :
           /\ m[1] = avgDeviation(pointsRef)
           /\ m[2] > pathLength(pointsRef)
           /\ m[3] = scoreDrawing(pointsRef)

\* C20: the score fields are consistent in every reachable state: hasAttempt
\* is true exactly when lastScore is not null, hasAttempt never goes back to
\* false, and a lastScore that is not null is at most bestScore.
C20_ScoreFieldsConsistent ==
    /\ [](hasAttempt <=> lastScore # null)
    /\ [](lastScore # null => lastScore <= bestScore)
    /\ [][hasAttempt => hasAttempt']_vars

\* two attempts recorded, the last one below the best
C20_Witness ==
    /\ Len(scores) = 2
    /\ hasAttempt
    /\ lastScore # null
    /\ lastScore < bestScore
    /\ lastScore = scores[2]

\* C21: whenever the machine is Idle the canvas holds no pointer capture:
\* under any interleaving of the events of one or more pointers, every capture
\* acquired by a pointer-down has been released by the time the machine is
\* Idle again.
C21_IdleHoldsNoCapture == ~isDrawingRef => captured = {}

====
